---- MODULE Spec2Model ----
(***************************************************************************)
(* The round state machine of src/components/GameBoard.tsx: one GameState  *)
(* record held by the GameBoard component and the seven event handlers     *)
(* that replace it (deposit, stake edit, mine-count edit, new game,        *)
(* lock-in, block click, cash-out).                                        *)
(*                                                                         *)
(* Numbers.  The source computes on IEEE 754 doubles, and so does the      *)
(* model: every amount of money and every multiplier is a double, and      *)
(* Plus, Minus, Times, Less and Leq are the correctly rounded +, -, *, <   *)
(* and <= of JavaScript (from a balance of 1, five rounds of               *)
(* balance - 1 + 1 * 1.2 end at 1.9999999999999998, which is below 2).     *)
(* -0 is not told apart from 0, which no comparison of the source does     *)
(* either.                                                                 *)
(*                                                                         *)
(* Arrays.  A JavaScript array is a function from the keys it holds to     *)
(* booleans.  Reading a key it does not hold gives undefined, which the    *)
(* source only ever tests for truthiness, so it reads as FALSE.            *)
(***************************************************************************)
EXTENDS Integers, FiniteSets, Sequences, TLC

\* ---------------------------------------------------------------- bounds
\* Number of cells of the grid the model tracks: the cells 0..gridSize-1 of
\* the 25 the source draws.  The chance of a ruby in a cell stays the
\* source's mineCount / 25 (see DrawBlocks).
gridSize == 2

\* Largest balance, in whole units, that a saved balance or a deposit may
\* reach; a cash-out may pass it by one unit, so that a stake of MaxBalance
\* can be staked, debited and paid out.
MaxBalance == 2

\* The largest stake the player enters, in whole units.
MaxStake == 2

\* Number of cash-outs explored in one session.
MaxCashouts == 1

\* Number of events dispatched between two renders (SpecBatch).
MaxBatch == 2

\* --------------------------------------------------------------- binary64
\* The source computes on IEEE 754 doubles (JavaScript numbers).  A double
\* is modelled exactly: a sign and a magnitude, the magnitude a natural
\* number of units of 2^-56 held in five limbs of 14 bits, least significant
\* first (limb 5 is the whole part).  Every result is rounded to 53
\* significant bits, ties to even, as the hardware does.  The format is
\* exact for zero and for magnitudes in [2^-4, 2^10): every double the
\* handlers form from whole deposits and stakes and multipliers of 1 or more.
Base == 2^14

\* The number of bits of n.
RECURSIVE Bits(_)
Bits(n) == IF n = 0 THEN 0 ELSE 1 + Bits(n \div 2)

\* The number of bits of a magnitude, less the 53 a double keeps: how many
\* low bits of limb 1 a result has to give up.
Excess(m) ==
  IF m[5] > 0 THEN Bits(m[5]) + 3
  ELSE IF m[4] > 0 THEN Bits(m[4]) - 11
  ELSE 0

\* a + b
BigAdd(a, b) ==
  LET s1 == a[1] + b[1]
      s2 == a[2] + b[2] + s1 \div Base
      s3 == a[3] + b[3] + s2 \div Base
      s4 == a[4] + b[4] + s3 \div Base
      s5 == a[5] + b[5] + s4 \div Base
  IN <<s1 % Base, s2 % Base, s3 % Base, s4 % Base, s5>>

\* a - b for a >= b (\div rounds down, so a negative limb borrows).
BigSub(a, b) ==
  LET s1 == a[1] - b[1]
      s2 == a[2] - b[2] + s1 \div Base
      s3 == a[3] - b[3] + s2 \div Base
      s4 == a[4] - b[4] + s3 \div Base
      s5 == a[5] - b[5] + s4 \div Base
  IN <<s1 % Base, s2 % Base, s3 % Base, s4 % Base, s5>>

BigLess(a, b) ==
  \/ a[5] < b[5]
  \/ /\ a[5] = b[5]
     /\ \/ a[4] < b[4]
        \/ /\ a[4] = b[4]
           /\ \/ a[3] < b[3]
              \/ /\ a[3] = b[3]
                 /\ \/ a[2] < b[2]
                    \/ a[2] = b[2] /\ a[1] < b[1]

\* The ten limbs of a * b, in units of 2^-112.
BigMul(a, b) ==
  LET c1 == a[1] * b[1]
      c2 == a[1] * b[2] + a[2] * b[1] + c1 \div Base
      c3 == a[1] * b[3] + a[2] * b[2] + a[3] * b[1] + c2 \div Base
      c4 == a[1] * b[4] + a[2] * b[3] + a[3] * b[2] + a[4] * b[1]
              + c3 \div Base
      c5 == a[1] * b[5] + a[2] * b[4] + a[3] * b[3] + a[4] * b[2]
              + a[5] * b[1] + c4 \div Base
      c6 == a[2] * b[5] + a[3] * b[4] + a[4] * b[3] + a[5] * b[2]
              + c5 \div Base
      c7 == a[3] * b[5] + a[4] * b[4] + a[5] * b[3] + c6 \div Base
      c8 == a[4] * b[5] + a[5] * b[4] + c7 \div Base
      c9 == a[5] * b[5] + c8 \div Base
  IN <<c1 % Base, c2 % Base, c3 % Base, c4 % Base, c5 % Base, c6 % Base,
       c7 % Base, c8 % Base, c9 % Base, c9 \div Base>>

\* The magnitude m, followed below its unit by the limb guard and, when
\* sticky, by more non-zero bits, rounded to 53 significant bits, ties to
\* even.
Round53(m, guard, sticky) ==
  LET e == Excess(m)
      p == 2^e
      r == m[1] % p
      half == IF e = 0 THEN guard >= Base \div 2 ELSE r >= p \div 2
      below == IF e = 0 THEN guard % (Base \div 2) # 0 \/ sticky
               ELSE r % (p \div 2) # 0 \/ guard # 0 \/ sticky
      odd == (m[1] \div p) % 2 = 1
      kept == [m EXCEPT ![1] = m[1] - r]
  IN IF e < 0 \/ (r = 0 /\ guard = 0 /\ ~sticky) THEN m
     ELSE IF half /\ (below \/ odd)
          THEN BigAdd(kept, <<p, 0, 0, 0, 0>>)
          ELSE kept

NoLimbs == <<0, 0, 0, 0, 0>>
Zero == [neg |-> FALSE, mag |-> NoLimbs]
Double(neg, mag) == IF mag = NoLimbs THEN Zero ELSE [neg |-> neg, mag |-> mag]

\* The double of a whole number 0 <= n < 2^10.
FromInt(n) == Double(FALSE, <<0, 0, 0, 0, n>>)

\* The double a decimal literal n/d denotes (0 < n, d < Base): the quotient,
\* by long division to one limb below the unit, correctly rounded.
Decimal(n, d) ==
  LET r5 == n % d
      r4 == (r5 * Base) % d
      r3 == (r4 * Base) % d
      r2 == (r3 * Base) % d
      r1 == (r2 * Base) % d
      r0 == (r1 * Base) % d
  IN Double(FALSE,
            Round53(<<(r2 * Base) \div d, (r3 * Base) \div d,
                      (r4 * Base) \div d, (r5 * Base) \div d, n \div d>>,
                    (r1 * Base) \div d, r0 # 0))

Neg(x) == Double(~x.neg, x.mag)

\* x + y
Plus(x, y) ==
  IF x.neg = y.neg
  THEN Double(x.neg, Round53(BigAdd(x.mag, y.mag), 0, FALSE))
  ELSE IF BigLess(x.mag, y.mag)
       THEN Double(y.neg, Round53(BigSub(y.mag, x.mag), 0, FALSE))
       ELSE Double(x.neg, Round53(BigSub(x.mag, y.mag), 0, FALSE))

\* x - y
Minus(x, y) == Plus(x, Neg(y))

\* x * y
Times(x, y) ==
  LET c == BigMul(x.mag, y.mag)
  IN Double(x.neg # y.neg,
            Round53(<<c[5], c[6], c[7], c[8], c[9]>>, c[4],
                    c[1] # 0 \/ c[2] # 0 \/ c[3] # 0))

\* x < y, x <= y
Less(x, y) ==
  IF x.neg # y.neg THEN x.neg
  ELSE IF x.neg THEN BigLess(y.mag, x.mag) ELSE BigLess(x.mag, y.mag)

Leq(x, y) == ~Less(y, x)

\* ---------------------------------------------------------------- inputs
\* The amounts the player deposits.
Amounts == {FromInt(0), FromInt(1)}
\* The stakes the player enters: the 1 a round starts with and the largest.
Stakes == {FromInt(1), FromInt(MaxStake)}

\* ------------------------------------------------------- program constants
\* gridSize of GAME_SETTINGS in the source: the divisor of the ruby ratio.
sourceGridSize == 25

\* gridSize is the number of cells tracked; 1.2 and 0.1 are the doubles the
\* literals denote.
GAME_SETTINGS ==
  [gridSize |-> gridSize,
   maxMines |-> 15,
   baseMultiplier |-> Decimal(12, 10),
   riskFactor |-> Decimal(1, 10)]

\* The mine count GameBoard starts with.
initialMineCount == 5

\* The mine counts the player enters: 3 is a count of the allowed range 1..15
\* and leaves every grid possible, as the initial 5 does; 0 makes every cell
\* a gem and 25 every cell a ruby.
MineCounts == {0, 3, sourceGridSize}

\* ----------------------------------------------------------------- arrays
\* Array(n).fill(false)
Filled(n) == [i \in 0..(n - 1) |-> FALSE]

\* a.length: one more than the largest array index a holds.
Length(a) ==
  LET idx == {k \in DOMAIN a : k >= 0}
  IN IF idx = {} THEN 0 ELSE 1 + CHOOSE m \in idx : \A k \in idx : k <= m

\* Truthiness of a[index]; a key the array does not hold reads undefined.
At(a, index) == index \in DOMAIN a /\ a[index]

\* a.some(Boolean): only array indices are visited.
Some(a) == \E k \in DOMAIN a : k >= 0 /\ a[k]

\* [...a]: copies indices 0..length-1 (holes become undefined) and drops
\* every other property.
Spread(a) == [i \in 0..(Length(a) - 1) |-> At(a, i)]

\* The indices a.map(...) visits: 0..length-1.
Indices(a) == 0..(Length(a) - 1)

\* a[index] = value
Put(a, index, value) ==
  [k \in (DOMAIN a) \cup {index} |-> IF k = index THEN value ELSE a[k]]

\* -------------------------------------------------- utils/gameCalculations
\* calculatePotentialPayout(stake, multiplier): stake x multiplier.
calculatePotentialPayout(stake, multiplier) == Times(stake, multiplier)

\* calculateMultiplier(base, risk, safeReveals): base at 0, compounding
\* growth by the risk factor per safe reveal: base * (1 + risk) * ... * (1 +
\* risk), one factor per safe reveal.
RECURSIVE calculateMultiplier(_, _, _)
calculateMultiplier(baseMultiplier, riskFactor, score) ==
  IF score = 0 THEN baseMultiplier
  ELSE LET m == calculateMultiplier(baseMultiplier, riskFactor, score - 1)
       IN Times(m, Plus(FromInt(1), riskFactor))

\* -------------------------------------------------------------- the state
\* gameState: the GameState held by useState.
\* last:      the event dispatched last and its argument.
\* cashouts:  how many times handleCashout has run (bounds the session).
\* rendered:  the gameState of the last render, which the handlers close over.
\* pending:   how many events have been dispatched since the last render.
VARIABLES gameState, last, cashouts, rendered, pending

vars == <<gameState, last, cashouts, rendered, pending>>

\* The outcomes of Math.random() >= mineCount / gridSize for one cell:
\* Math.random() is in [0, 1) and the source divides by 25, so the cell can
\* be a gem (TRUE) iff mineCount < 25 and a ruby (FALSE) iff mineCount > 0.
DrawBlock(mineCount) ==
  {gem \in BOOLEAN : IF gem THEN mineCount < sourceGridSize ELSE mineCount > 0}

\* The outcomes of Array(gridSize).fill(false).map(() => ...) on the cells
\* tracked: every cell is drawn on its own.
DrawBlocks(settings, mineCount) ==
  [0..(settings.gridSize - 1) -> DrawBlock(mineCount)]

initialGameState(settings, mineCount, savedBalance, blocks) ==
  [blocks |-> blocks,
   revealed |-> Filled(settings.gridSize),
   gameOver |-> FALSE,
   score |-> 0,
   stake |-> FromInt(1),
   multiplier |-> settings.baseMultiplier,
   potentialPayout |-> settings.baseMultiplier,
   mineCount |-> mineCount,
   balance |-> savedBalance,
   isPlaying |-> FALSE,
   isLockedIn |-> FALSE]

\* --------------------------------------------------------------- handlers
\* Each handler reads its guards from gs, the snapshot of the render that
\* created it, and returns the state its updaters produce from prev.

\* handleDeposit replacing the balance by the amount.
handleDeposit_Overwrite(gs, prev, amount) ==
  [prev EXCEPT !.balance = amount]

handleDeposit(gs, prev, amount) ==
  [prev EXCEPT !.balance = Plus(prev.balance, amount)]

handleStakeChange(gs, prev, newStake) ==
  IF Leq(newStake, gs.balance)
  THEN [prev EXCEPT !.stake = newStake,
                    !.potentialPayout = calculatePotentialPayout(newStake, prev.multiplier)]
  ELSE prev

\* handleMineCountChange without the "no cell revealed" guard.
handleMineCountChange_NoGuard(gs, prev, newMineCount, blocks) ==
  [prev EXCEPT !.blocks = blocks, !.mineCount = newMineCount]

handleMineCountChange(gs, prev, newMineCount, blocks) ==
  IF ~Some(gs.revealed)
  THEN [prev EXCEPT !.blocks = blocks, !.mineCount = newMineCount]
  ELSE prev

\* handleNewGame without the "preserve the previous stake" line.
handleNewGame_ForgetStake(gs, prev, blocks) ==
  initialGameState(GAME_SETTINGS, prev.mineCount, prev.balance, blocks)

handleNewGame(gs, prev, blocks) ==
  [initialGameState(GAME_SETTINGS, prev.mineCount, prev.balance, blocks)
     EXCEPT !.stake = prev.stake]

\* handleLockIn without the stake <= balance guard.
handleLockIn_NoGuard(gs, prev) ==
  [prev EXCEPT !.isLockedIn = TRUE]

\* handleLockIn also clearing the gameOver flag.
handleLockIn_ClearsGameOver(gs, prev) ==
  IF Leq(gs.stake, gs.balance)
  THEN [prev EXCEPT !.isLockedIn = TRUE, !.gameOver = FALSE]
  ELSE prev

handleLockIn(gs, prev) ==
  IF Leq(gs.stake, gs.balance)
  THEN [prev EXCEPT !.isLockedIn = TRUE]
  ELSE prev

\* DebitStake taking the stake twice.
DebitStake_Twice(prev) ==
  [prev EXCEPT !.balance = Minus(prev.balance, Times(FromInt(2), prev.stake)),
               !.isPlaying = TRUE]

\* The updater handleBlockClick queues on the first click of the round.
DebitStake(prev) ==
  [prev EXCEPT !.balance = Minus(prev.balance, prev.stake), !.isPlaying = TRUE]

\* FoundGem leaving the score as it was.
FoundGem_KeepsScore(prev, newRevealed, newScore, newMultiplier) ==
  [prev EXCEPT
     !.revealed = newRevealed,
     !.multiplier = newMultiplier,
     !.potentialPayout = calculatePotentialPayout(prev.stake, newMultiplier)]

\* The updater of the gem branch.
FoundGem(prev, newRevealed, newScore, newMultiplier) ==
  [prev EXCEPT
     !.revealed = newRevealed,
     !.score = newScore,
     !.multiplier = newMultiplier,
     !.potentialPayout = calculatePotentialPayout(prev.stake, newMultiplier)]

\* FoundRuby giving the stake back.
FoundRuby_Refund(prev, newRevealed) ==
  [prev EXCEPT
     !.revealed = newRevealed,
     !.gameOver = TRUE,
     !.isPlaying = FALSE,
     !.balance = Plus(prev.balance, prev.stake)]

\* FoundRuby turning every block into a ruby.
FoundRuby_ClearsBlocks(prev, newRevealed) ==
  [prev EXCEPT
     !.blocks = [i \in DOMAIN prev.blocks |-> FALSE],
     !.revealed = newRevealed,
     !.gameOver = TRUE,
     !.isPlaying = FALSE]

\* FoundRuby leaving isPlaying set.
FoundRuby_KeepsPlaying(prev, newRevealed) ==
  [prev EXCEPT
     !.revealed = newRevealed,
     !.gameOver = TRUE]

\* The updater of the ruby branch.
FoundRuby(prev, newRevealed) ==
  [prev EXCEPT
     !.revealed = newRevealed,
     !.gameOver = TRUE,
     !.isPlaying = FALSE]

\* handleBlockClick after its first-click block: the cell is marked in a
\* copy of the rendered revealed array and the branch is chosen from the
\* rendered blocks.
RevealBlock(gs, prev, index) ==
  LET newRevealed == Put(Spread(gs.revealed), index, TRUE)
  IN IF At(gs.blocks, index)
     THEN LET newScore == gs.score + 1
              newMultiplier ==
                calculateMultiplier(GAME_SETTINGS.baseMultiplier,
                                    GAME_SETTINGS.riskFactor, newScore)
          IN FoundGem(prev, newRevealed, newScore, newMultiplier)
     ELSE FoundRuby(prev, newRevealed)

\* handleBlockClick debiting the stake on every click.
handleBlockClick_DebitEveryClick(gs, prev, index) ==
  IF At(gs.revealed, index) \/ gs.gameOver \/ ~gs.isLockedIn THEN prev
  ELSE IF Less(gs.balance, gs.stake) THEN prev
       ELSE RevealBlock(gs, DebitStake(prev), index)

\* handleBlockClick without the gameOver guard.
handleBlockClick_NoGameOverGuard(gs, prev, index) ==
  IF At(gs.revealed, index) \/ ~gs.isLockedIn THEN prev
  ELSE
    LET isFirstClick == ~Some(gs.revealed)
    IN IF isFirstClick /\ Less(gs.balance, gs.stake) THEN prev
       ELSE RevealBlock(gs, IF isFirstClick THEN DebitStake(prev) ELSE prev,
                        index)

handleBlockClick(gs, prev, index) ==
  IF At(gs.revealed, index) \/ gs.gameOver \/ ~gs.isLockedIn THEN prev
  ELSE
    LET isFirstClick == ~Some(gs.revealed)
    IN IF isFirstClick /\ Less(gs.balance, gs.stake) THEN prev
       ELSE RevealBlock(gs, IF isFirstClick THEN DebitStake(prev) ELSE prev,
                        index)

\* handleCashout without the "preserve the previous stake" line.
handleCashout_ForgetStake(gs, prev, blocks) ==
  initialGameState(GAME_SETTINGS, prev.mineCount,
                   Plus(prev.balance, Times(prev.stake, prev.multiplier)),
                   blocks)

handleCashout(gs, prev, blocks) ==
  [initialGameState(GAME_SETTINGS, prev.mineCount,
                    Plus(prev.balance, Times(prev.stake, prev.multiplier)),
                    blocks)
     EXCEPT !.stake = prev.stake]

\* ------------------------------------------------------------------- Init
\* useState initialiser: the balance saved by an earlier session, or 0.
SavedBalances == {FromInt(b) : b \in 0..MaxBalance}

Init ==
  /\ \E savedBalance \in SavedBalances :
       \E blocks \in DrawBlocks(GAME_SETTINGS, initialMineCount) :
         gameState = initialGameState(GAME_SETTINGS, initialMineCount,
                                      savedBalance, blocks)
  /\ last = [op |-> "init", arg |-> 0]
  /\ cashouts = 0
  /\ rendered = gameState
  /\ pending = 0

\* ----------------------------------------------------------------- events
\* One dispatched event each: the handler reads its guards from the rendered
\* snapshot and its updaters run on the current state.  last records the
\* event and its argument.  A block click comes from one of the Block
\* elements of the last render, one per cell of the rendered blocks.

DepositEvent ==
  \E amount \in Amounts :
    /\ Leq(Plus(gameState.balance, amount), FromInt(MaxBalance))
    /\ gameState' = handleDeposit(rendered, gameState, amount)
    /\ last' = [op |-> "deposit", arg |-> amount]
    /\ UNCHANGED cashouts

StakeChangeEvent ==
  \E newStake \in Stakes :
    /\ gameState' = handleStakeChange(rendered, gameState, newStake)
    /\ last' = [op |-> "setStake", arg |-> newStake]
    /\ UNCHANGED cashouts

MineCountChangeEvent ==
  \E newMineCount \in MineCounts :
    \E blocks \in DrawBlocks(GAME_SETTINGS, newMineCount) :
      /\ gameState' = handleMineCountChange(rendered, gameState,
                                            newMineCount, blocks)
      /\ last' = [op |-> "setHazardCount", arg |-> newMineCount]
      /\ UNCHANGED cashouts

NewGameEvent ==
  \E blocks \in DrawBlocks(GAME_SETTINGS, gameState.mineCount) :
    /\ gameState' = handleNewGame(rendered, gameState, blocks)
    /\ last' = [op |-> "newRound", arg |-> 0]
    /\ UNCHANGED cashouts

LockInEvent ==
  /\ gameState' = handleLockIn(rendered, gameState)
  /\ last' = [op |-> "lockIn", arg |-> 0]
  /\ UNCHANGED cashouts

BlockClickEvent ==
  \E index \in Indices(rendered.blocks) :
    /\ gameState' = handleBlockClick(rendered, gameState, index)
    /\ last' = [op |-> "reveal", arg |-> index]
    /\ UNCHANGED cashouts

CashoutEvent ==
  /\ cashouts < MaxCashouts
  /\ Leq(Plus(gameState.balance,
              Times(gameState.stake, gameState.multiplier)),
         FromInt(MaxBalance + 1))
  /\ \E blocks \in DrawBlocks(GAME_SETTINGS, gameState.mineCount) :
       gameState' = handleCashout(rendered, gameState, blocks)
  /\ last' = [op |-> "cashOut", arg |-> 0]
  /\ cashouts' = cashouts + 1

\* ---------------------------------------------------------------- actions
\* Spec: the component re-renders after every event, so the snapshot a
\* handler closes over is the state its updaters receive.
Rerender ==
  /\ rendered' = gameState'
  /\ pending' = 0

Deposit == DepositEvent /\ Rerender
StakeChange == StakeChangeEvent /\ Rerender
MineCountChange == MineCountChangeEvent /\ Rerender
NewGame == NewGameEvent /\ Rerender
LockIn == LockInEvent /\ Rerender
BlockClick == BlockClickEvent /\ Rerender
Cashout == CashoutEvent /\ Rerender

Next ==
  \/ Deposit
  \/ StakeChange
  \/ MineCountChange
  \/ NewGame
  \/ LockIn
  \/ BlockClick
  \/ Cashout

Spec == Init /\ [][Next]_vars

\* SpecBatch: up to MaxBatch events are dispatched before the component
\* renders again; their handlers all close over the same snapshot, and
\* their updaters are applied in dispatch order.
Queued ==
  /\ pending < MaxBatch
  /\ pending' = pending + 1
  /\ UNCHANGED rendered

BatchDeposit == Queued /\ DepositEvent
BatchStakeChange == Queued /\ StakeChangeEvent
BatchMineCountChange == Queued /\ MineCountChangeEvent
BatchNewGame == Queued /\ NewGameEvent
BatchLockIn == Queued /\ LockInEvent
BatchBlockClick == Queued /\ BlockClickEvent
BatchCashout == Queued /\ CashoutEvent

Render ==
  /\ pending > 0
  /\ rendered' = gameState
  /\ pending' = 0
  /\ last' = [op |-> "render", arg |-> 0]
  /\ UNCHANGED <<gameState, cashouts>>

NextBatch ==
  \/ BatchDeposit
  \/ BatchStakeChange
  \/ BatchMineCountChange
  \/ BatchNewGame
  \/ BatchLockIn
  \/ BatchBlockClick
  \/ BatchCashout
  \/ Render

SpecBatch == Init /\ [][NextBatch]_vars

\* ------------------------------------------------------------------ claims
InRange(index) == 0 <= index /\ index < GAME_SETTINGS.gridSize
AnyRevealed(gs) == Some(gs.revealed)

\* The event that leads from the current state to the next one.
Did(op) == last'.op = op
Accepted == gameState' # gameState

\* C1: the balance is never negative (deposits and stakes being
\* non-negative, as every input of the model is).
C1_BalanceNeverNegative == Leq(Zero, gameState.balance)

\* A first reveal has debited a positive stake and emptied the balance.
C1_Witness ==
  /\ last.op = "reveal"
  /\ AnyRevealed(gameState)
  /\ Less(Zero, gameState.stake)
  /\ gameState.balance = Zero

\* C2: an accepted reveal debits the stake exactly when it is the first
\* reveal of the round; every later accepted reveal leaves the balance alone.
C2_DebitOncePerRound ==
  [][Did("reveal") /\ Accepted =>
       gameState'.balance =
         IF AnyRevealed(gameState) THEN gameState.balance
         ELSE Minus(gameState.balance, gameState.stake)]_vars

\* A second safe reveal has been accepted in a round with a positive stake.
C2_Witness ==
  /\ last.op = "reveal"
  /\ gameState.score >= 2
  /\ Less(Zero, gameState.stake)
  /\ gameState.isPlaying

\* C3: once a cell is revealed, setStake is rejected for every newStake:
\* the state after the call equals the state before it.
C3_StakeFrozenAfterReveal ==
  [][Did("setStake") /\ AnyRevealed(gameState) => gameState' = gameState]_vars

\* C4: setHazardCount(n) is a no-op once a cell is revealed; before any
\* reveal it sets mineCount to n, re-draws blocks and leaves the rest alone.
C4_HazardCountEdit ==
  [][Did("setHazardCount") =>
       IF AnyRevealed(gameState)
       THEN gameState' = gameState
       ELSE /\ gameState'.mineCount = last'.arg
            /\ gameState'.blocks \in DrawBlocks(GAME_SETTINGS, last'.arg)
            /\ gameState' = [gameState EXCEPT !.mineCount = gameState'.mineCount,
                                              !.blocks = gameState'.blocks]]_vars

\* setHazardCount with a new count has been dispatched after a reveal.
C4_Witness ==
  /\ last.op = "setHazardCount"
  /\ AnyRevealed(gameState)
  /\ last.arg # gameState.mineCount

\* C5: potentialPayout = stake * multiplier in every state.
C5_PayoutIsStakeTimesMultiplier ==
  gameState.potentialPayout = Times(gameState.stake, gameState.multiplier)

\* C6: an accepted reveal of a hazard cell ends the round, marks the cell,
\* keeps the balance at its post-debit value and leaves score and multiplier.
C6_HazardReveal ==
  [][/\ Did("reveal")
     /\ Accepted
     /\ InRange(last'.arg)
     /\ ~At(gameState.blocks, last'.arg)
     => /\ gameState'.gameOver
        /\ ~gameState'.isPlaying
        /\ At(gameState'.revealed, last'.arg)
        /\ gameState'.balance =
             IF AnyRevealed(gameState) THEN gameState.balance
             ELSE Minus(gameState.balance, gameState.stake)
        /\ gameState'.score = gameState.score
        /\ gameState'.multiplier = gameState.multiplier]_vars

\* A hazard cell has been revealed after a safe one, with a positive stake.
C6_Witness ==
  /\ last.op = "reveal"
  /\ InRange(last.arg)
  /\ gameState.gameOver
  /\ At(gameState.revealed, last.arg)
  /\ ~At(gameState.blocks, last.arg)
  /\ gameState.score >= 1
  /\ Less(Zero, gameState.stake)

\* C7: cashOut credits stake * multiplier and returns a fresh round that
\* carries stake and mineCount over.
C7_CashOut ==
  [][Did("cashOut") =>
       /\ gameState'.balance =
            Plus(gameState.balance,
                 Times(gameState.stake, gameState.multiplier))
       /\ gameState'.revealed = Filled(GAME_SETTINGS.gridSize)
       /\ gameState'.score = 0
       /\ gameState'.multiplier = GAME_SETTINGS.baseMultiplier
       /\ ~gameState'.gameOver
       /\ ~gameState'.isPlaying
       /\ ~gameState'.isLockedIn
       /\ gameState'.stake = gameState.stake
       /\ gameState'.mineCount = gameState.mineCount]_vars

\* A cash-out has paid an emptied balance an edited stake of 2 at the
\* multiplier grown by one safe reveal: the balance is 2.64 and the stake of
\* the fresh round is still 2.
C7_Witness ==
  /\ last.op = "cashOut"
  /\ gameState.stake = FromInt(2)
  /\ gameState.balance =
       Times(FromInt(2),
             calculateMultiplier(GAME_SETTINGS.baseMultiplier,
                                 GAME_SETTINGS.riskFactor, 1))
  /\ ~AnyRevealed(gameState)

\* C8: from a state with gameOver, no event but deposit increases the
\* balance, a cashOut included.
C8_NoPayoutAfterHazard ==
  [][gameState.gameOver /\ ~Did("deposit") =>
       Leq(gameState'.balance, gameState.balance)]_vars

\* C9: reveal of a cell of the grid is a no-op when the stake is not locked
\* in, the cell is already revealed, or the game is over.
C9_RejectedReveal ==
  [][/\ Did("reveal")
     /\ InRange(last'.arg)
     /\ \/ ~gameState.isLockedIn
        \/ At(gameState.revealed, last'.arg)
        \/ gameState.gameOver
     => gameState' = gameState]_vars

\* An unrevealed cell has been clicked after the game was over.
C9_Witness ==
  /\ last.op = "reveal"
  /\ InRange(last.arg)
  /\ gameState.gameOver
  /\ gameState.isLockedIn
  /\ ~At(gameState.revealed, last.arg)

\* C11: deposit(amount) adds amount to the balance in every state and leaves
\* every other field unchanged.
C11_Deposit ==
  [][Did("deposit") =>
       gameState' = [gameState EXCEPT
                       !.balance = Plus(gameState.balance, last'.arg)]]_vars

\* A positive amount has been deposited after the game was over.
C11_Witness ==
  /\ last.op = "deposit"
  /\ Less(Zero, last.arg)
  /\ gameState.gameOver
  /\ Leq(last.arg, gameState.balance)

\* C12: newRound produces a fresh round that carries balance, stake and
\* mineCount forward unchanged (no refund of a debited stake).
C12_NewRound ==
  [][Did("newRound") =>
       /\ gameState'.balance = gameState.balance
       /\ gameState'.stake = gameState.stake
       /\ gameState'.mineCount = gameState.mineCount
       /\ gameState'.revealed = Filled(GAME_SETTINGS.gridSize)
       /\ gameState'.score = 0
       /\ gameState'.multiplier = GAME_SETTINGS.baseMultiplier
       /\ ~gameState'.gameOver
       /\ ~gameState'.isPlaying
       /\ ~gameState'.isLockedIn]_vars

\* A new round has started with an edited stake and an emptied balance.
C12_Witness ==
  /\ last.op = "newRound"
  /\ gameState.stake = FromInt(2)
  /\ gameState.balance = Zero
  /\ ~AnyRevealed(gameState)

\* C13: mineCount is in [1, maxMines] in every state.
C13_HazardCountInRange ==
  /\ 1 <= gameState.mineCount
  /\ gameState.mineCount <= GAME_SETTINGS.maxMines

\* C14: once gameOver is true it stays true under deposit, setStake,
\* setHazardCount, lockIn and reveal; newRound and cashOut reset it, and a
\* newRound is enabled in every state.
C14_GameOverLeftByNewRoundOrCashOut ==
  /\ [](ENABLED NewGame)
  /\ [][/\ (gameState.gameOver /\ ~Did("newRound") /\ ~Did("cashOut")
              => gameState'.gameOver)
        /\ (Did("newRound") \/ Did("cashOut") => ~gameState'.gameOver)]_vars

\* The stake has been locked in again while the game was over.
C14_Witness ==
  /\ last.op = "lockIn"
  /\ gameState.gameOver
  /\ Leq(gameState.stake, gameState.balance)

\* The state the event op(arg) produces when it is applied to gs on its own,
\* its handler closing over gs; blocks is the grid a re-draw produces.
Sequential(op, arg, gs, blocks) ==
  CASE op = "deposit" -> handleDeposit(gs, gs, arg)
    [] op = "setStake" -> handleStakeChange(gs, gs, arg)
    [] op = "setHazardCount" -> handleMineCountChange(gs, gs, arg, blocks)
    [] op = "newRound" -> handleNewGame(gs, gs, blocks)
    [] op = "lockIn" -> handleLockIn(gs, gs)
    [] op = "reveal" -> handleBlockClick(gs, gs, arg)
    [] op = "cashOut" -> handleCashout(gs, gs, blocks)
    [] OTHER -> gs

\* C15: an event whose handler still closes over the snapshot of an earlier
\* render produces the state that applying it sequentially produces.
C15_BatchEqualsSequential ==
  [][~Did("render") =>
       gameState' = Sequential(last'.op, last'.arg, gameState,
                               gameState'.blocks)]_vars

\* C16: blocks changes only on newRound, on cashOut, or on a setHazardCount
\* dispatched while no cell is revealed; deposit, setStake, lockIn and
\* reveal never change it.
C16_CellsFixedForTheRound ==
  [][gameState'.blocks # gameState.blocks =>
       \/ Did("newRound")
       \/ Did("cashOut")
       \/ Did("setHazardCount") /\ ~AnyRevealed(gameState)]_vars

\* A gem has been revealed in a grid that also holds a ruby, and the round
\* goes on.
C16_Witness ==
  /\ last.op = "reveal"
  /\ InRange(last.arg)
  /\ At(gameState.blocks, last.arg)
  /\ \E i \in DOMAIN gameState.blocks : ~gameState.blocks[i]
  /\ ~gameState.gameOver

\* The cells of the grid.
Cells == 0..(GAME_SETTINGS.gridSize - 1)
SafeRevealed(gs) == {i \in Cells : At(gs.revealed, i) /\ At(gs.blocks, i)}
HazardRevealed(gs) == {i \in Cells : At(gs.revealed, i) /\ ~At(gs.blocks, i)}

\* C17: score counts the revealed gems; at most one revealed cell is a
\* hazard, and one is exactly when gameOver is true.
C17_ScoreCountsSafeReveals ==
  /\ gameState.score = Cardinality(SafeRevealed(gameState))
  /\ Cardinality(HazardRevealed(gameState)) <= 1
  /\ (Cardinality(HazardRevealed(gameState)) = 1) <=> gameState.gameOver

\* A ruby has been revealed after a gem: one safe and one hazard cell are
\* revealed, the score is 1 and the game is over.
C17_Witness ==
  /\ last.op = "reveal"
  /\ Cardinality(SafeRevealed(gameState)) = 1
  /\ Cardinality(HazardRevealed(gameState)) = 1
  /\ gameState.score = 1
  /\ gameState.gameOver

\* C18: isPlaying is true exactly when a cell is revealed and the game is
\* not over.
C18_IsPlaying ==
  gameState.isPlaying <=> (AnyRevealed(gameState) /\ ~gameState.gameOver)

\* The first gem of a round has been revealed: the round is being played.
C18_Witness ==
  /\ last.op = "reveal"
  /\ gameState.isPlaying
  /\ gameState.score = 1
  /\ ~gameState.gameOver

\* C19: a cashOut in a round with no reveal (no stake debited) leaves the
\* balance unchanged.
C19_NoCreditWithoutDebit ==
  [][Did("cashOut") /\ ~AnyRevealed(gameState) =>
       gameState'.balance = gameState.balance]_vars

\* C20: while the stake is locked in and no cell is revealed, stake <=
\* balance; hence the first reveal of a locked-in round is accepted and
\* debits the stake.
C20_LockedStakeCovered ==
  /\ []((gameState.isLockedIn /\ ~AnyRevealed(gameState))
         => Leq(gameState.stake, gameState.balance))
  /\ [][/\ Did("reveal")
        /\ gameState.isLockedIn
        /\ ~AnyRevealed(gameState)
        => /\ AnyRevealed(gameState')
           /\ gameState'.balance =
                Minus(gameState.balance, gameState.stake)]_vars

\* The first reveal of a round locked in with the whole balance at stake has
\* been accepted: the stake of 2 is debited and the balance is 0.
C20_Witness ==
  /\ last.op = "reveal"
  /\ gameState.isLockedIn
  /\ Cardinality({i \in Cells : At(gameState.revealed, i)}) = 1
  /\ gameState.stake = FromInt(2)
  /\ gameState.balance = Zero

====
